---- MODULE Spec2Model ----
(***************************************************************************)
(* A model of the Haro Python SDK (src/haro/api.py): the Event validator   *)
(* and the HaroAPIClient, whose calls run on threads that share one client *)
(* instance.  Python values are tagged records; strings are sequences of   *)
(* one-character strings, so that the regular expression and the prefix    *)
(* tests are computed character by character.                              *)
(***************************************************************************)
EXTENDS Integers, Sequences, FiniteSets, TLC

VARIABLES
    api_id,       \* HaroAPIClient.api_id
    api_key,      \* HaroAPIClient.api_key
    server,       \* the responses the remote endpoint may answer with
    call,         \* per thread: the client call it makes (operation and arguments)
    pc,           \* per thread: "off", "start", "post" (a frame of _send_events_with_retry), "done"
    frame,        \* per thread: the arguments of its current _send_events_with_retry frame
    history,      \* per thread: the HTTP exchanges of its call, in order
    outcome       \* per thread: what the call returned or raised

vars == <<api_id, api_key, server, call, pc, frame, history, outcome>>

(***************************************************************************)
(* Python values                                                           *)
(***************************************************************************)
PyNone == [t |-> "None"]
PyStr(s) == [t |-> "str", v |-> s]
PyInt(n) == [t |-> "int", v |-> n]
PyFloat(n) == [t |-> "float", v |-> n]
PyBool(b) == [t |-> "bool", v |-> b]
PyList(s) == [t |-> "list", v |-> s]
PyDict(items) == [t |-> "dict", v |-> items]

\* bool(x) for the values above
Truthy(x) ==
    CASE x.t = "None" -> FALSE
      [] x.t = "bool" -> x.v
      [] x.t \in {"int", "float"} -> x.v # 0
      [] OTHER -> Len(x.v) > 0

\* isinstance(v, (int, float)) or isinstance(v, string_types); bool is a subclass of int
IsScalar(x) == x.t \in {"int", "float", "bool", "str"}

Rep(ch, n) == [i \in 1..n |-> ch]

StartsWith(s, prefix) ==
    /\ Len(s) >= Len(prefix)
    /\ SubSeq(s, 1, Len(prefix)) = prefix

(***************************************************************************)
(* ALPHA_NUMERIC_REGEX = "^[\.a-zA-Z0-9_-]{1,128}$"                         *)
(***************************************************************************)
MAX_IDENT_LEN == 128

Lower == {"a","b","c","d","e","f","g","h","i","j","k","l","m",
          "n","o","p","q","r","s","t","u","v","w","x","y","z"}
Upper == {"A","B","C","D","E","F","G","H","I","J","K","L","M",
          "N","O","P","Q","R","S","T","U","V","W","X","Y","Z"}
Digit == {"0","1","2","3","4","5","6","7","8","9"}
ClassChars == Lower \cup Upper \cup Digit \cup {".", "_", "-"}

AllInClass(s) == \A i \in 1..Len(s) : s[i] \in ClassChars

\* re.match(ALPHA_NUMERIC_REGEX, s) on a str: the class repeated 1..128 times,
\* then "$", which matches at the end of the string and also just before a
\* newline that ends the string.
ReMatch(s) ==
    LET n == Len(s)
        body == IF n > 0 /\ s[n] = "\n" THEN SubSeq(s, 1, n - 1) ELSE s
    IN  /\ Len(body) >= 1
        /\ Len(body) <= MAX_IDENT_LEN
        /\ AllInClass(body)

(***************************************************************************)
(* Event                                                                   *)
(***************************************************************************)
\* datetime.datetime.fromtimestamp accepts years 1..9999.  Timestamps are
\* counted here in units of 10^12 ms: year 9999 ends in unit 253, year 1
\* starts in unit -62.
TS_MAX == 253
TS_MIN == -62

FromTimestampOk(ts) == ts >= TS_MIN /\ ts <= TS_MAX

\* Event.__init__: context or {}
NewEvent(id, action, item, timestamp, user, context) ==
    [id |-> id, action |-> action, item |-> item, user |-> user,
     context |-> IF Truthy(context) THEN context ELSE PyDict(<<>>),
     timestamp |-> timestamp]

\* Event.as_dict
AsDict(e) ==
    [id |-> e.id, action |-> e.action, item |-> e.item,
     ts |-> e.timestamp, user |-> e.user, context |-> e.context]

RequiredFields == <<"id", "action", "item", "user">>

NoError == [exc |-> "none", check |-> "none", at |-> "none", idx |-> 0]
Raise(exc, check, at, idx) == [exc |-> exc, check |-> check, at |-> at, idx |-> idx]

\* one pass of the loop over ('id', 'action', 'item', 'user')
CheckField(e, f) ==
    IF e[f] = PyNone
    THEN Raise("ValueError", "required", f, 0)
    ELSE IF e[f].t # "str" \/ ~ReMatch(e[f].v)   \* TypeError is caught: match = False
         THEN Raise("ValueError", "pattern", f, 0)
         ELSE NoError

\* one pass of the loop over context.items()
CheckEntry(entry, i) ==
    IF entry.k.t # "str"
    THEN Raise("TypeError", "key", "context", i)   \* re.match on a non-string, not caught
    ELSE IF ~ReMatch(entry.k.v)
         THEN Raise("ValueError", "key", "context", i)
         ELSE IF ~IsScalar(entry.v)
              THEN Raise("ValueError", "value", "context", i)
              ELSE NoError

RECURSIVE CheckFieldsFrom(_, _)
CheckFieldsFrom(e, i) ==
    IF i > Len(RequiredFields) THEN NoError
    ELSE LET r == CheckField(e, RequiredFields[i])
         IN  IF r # NoError THEN r ELSE CheckFieldsFrom(e, i + 1)

RECURSIVE CheckEntriesFrom(_, _)
CheckEntriesFrom(items, i) ==
    IF i > Len(items) THEN NoError
    ELSE LET r == CheckEntry(items[i], i)
         IN  IF r # NoError THEN r ELSE CheckEntriesFrom(items, i + 1)

\* EventValidate that tests the context's type before the timestamp
EventValidateContextFirst(e) ==
    LET fields == CheckFieldsFrom(e, 1)
    IN  IF fields # NoError THEN fields
        ELSE IF e.context.t # "dict"
             THEN Raise("ValueError", "context", "context", 0)
             ELSE IF ~FromTimestampOk(e.timestamp)
                  THEN Raise("ValueError", "timestamp", "timestamp", 0)
                  ELSE CheckEntriesFrom(e.context.v, 1)

\* Event.validate: NoError when it returns, else the exception it raises
EventValidate(e) ==
    LET fields == CheckFieldsFrom(e, 1)
    IN  IF fields # NoError THEN fields
        ELSE IF ~FromTimestampOk(e.timestamp)
             THEN Raise("ValueError", "timestamp", "timestamp", 0)
             ELSE IF e.context.t # "dict"
                  THEN Raise("ValueError", "context", "context", 0)
                  ELSE CheckEntriesFrom(e.context.v, 1)

(***************************************************************************)
(* Inputs of Event.validate                                                *)
(***************************************************************************)
MaxTail == 1   \* longest string written out character by character
MaxCtx == 2    \* most entries of a context mapping

Str_u1 == <<"u", "1">>
Str_v1 == <<"v", "1">>
Str_k1 == <<"k", ".", "1">>
Str_bad == <<"a", "1", "?">>

TailChars == {"a", ".", "?", "\n"}
Tails == UNION {[1..n -> TailChars] : n \in 0..MaxTail}
\* "a" repeated 0, 127 or 128 times, then a tail: lengths around the limit
Strings == {Rep("a", n) \o tl : n \in {0, MAX_IDENT_LEN - 1, MAX_IDENT_LEN}, tl \in Tails}

GoodField == PyStr(Str_u1)
FieldBasics == {GoodField, PyNone, PyStr(Str_bad)}
FieldValues == {PyNone, PyInt(5)} \cup {PyStr(s) : s \in Strings}

Timestamps == {1, TS_MAX, TS_MAX + 1, TS_MIN - 1}

CtxKeys == {PyStr(Str_k1), PyStr(<<"k", "#">>), PyStr(<<"k", "\n">>), PyInt(7)}
CtxValues == {PyStr(Str_v1), PyFloat(3), PyBool(TRUE), PyNone,
              PyList(<<PyInt(1), PyInt(2)>>)}
CtxEntries == [k : CtxKeys, v : CtxValues]
DistinctKeys(items) == \A i, j \in 1..Len(items) : i # j => items[i].k # items[j].k
Contexts ==
    {PyDict(items) : items \in {s \in UNION {[1..n -> CtxEntries] : n \in 0..MaxCtx} :
                                    DistinctKeys(s)}}
    \cup {PyStr(<<"I", " ", "a", "m">>)}
CtxBasics == {PyDict(<<>>), PyStr(<<"I", " ", "a", "m">>),
              PyDict(<<[k |-> PyStr(<<"k", "#">>), v |-> PyStr(Str_v1)]>>),
              PyDict(<<[k |-> PyStr(Str_k1), v |-> PyList(<<PyInt(1), PyInt(2)>>)]>>)}

\* events with several fields wrong at once
BasicEvents ==
    {NewEvent(i, a, it, ts, u, cx) :
        i \in FieldBasics, a \in FieldBasics, it \in FieldBasics, u \in FieldBasics,
        ts \in {1, TS_MAX + 1}, cx \in CtxBasics}
\* one identifier field over every string, the rest valid
DeepFieldEvents ==
    {[NewEvent(GoodField, GoodField, GoodField, ts, GoodField, PyDict(<<>>))
         EXCEPT ![f] = x] :
        f \in {"id", "action", "item", "user"}, x \in FieldValues, ts \in Timestamps}
\* every context, the identifier fields valid
DeepContextEvents ==
    {NewEvent(GoodField, GoodField, GoodField, 1, GoodField, cx) : cx \in Contexts}

InputEvents == BasicEvents \cup DeepFieldEvents \cup DeepContextEvents

(***************************************************************************)
(* HTTP: requests, responses, results                                      *)
(***************************************************************************)
_MAX_RETRIES == 3

EventsUrl == [endpoint |-> "https://events.haro.io", version |-> "v16.10", path |-> "events"]
PredictionUrl(op, pid, user) ==
    [endpoint |-> "https://api.haro.io", version |-> "v17.12",
     op |-> op, pid |-> pid, user |-> user]
AllPredictionsUrl(user) ==
    [endpoint |-> "https://api.haro.io", version |-> "v17.12",
     op |-> "all-predictions", user |-> user]

\* HaroAPIClient._build_request_headers
BuildRequestHeaders(id, key) ==
    {[k |-> "Content-Type", v |-> "application/json"],
     [k |-> "Accept", v |-> "application/json"],
     [k |-> "X-API-ID", v |-> id],
     [k |-> "X-API-KEY", v |-> key]}

Http(status, headers, body) ==
    [kind |-> "http", status |-> status, headers |-> headers, body |-> body]
TransportError == [kind |-> "transport_error"]   \* requests.post / requests.get raises

BodyEmpty == [kind |-> "empty"]
BodyText == [kind |-> "text"]                    \* content that is not JSON
BodyJson(v) == [kind |-> "json", v |-> v]

HasContent(r) == r.body.kind # "empty"           \* bool(r.content)
IsJson(r) == r.body.kind = "json"                \* r.json() returns, else it raises
\* r.raise_for_status() raises HTTPError
RaisesForStatus(r) == r.status >= 400 /\ r.status < 600

HasKey(d, key) == \E i \in 1..Len(d.v) : d.v[i].k = key
Item(d, key) == d.v[CHOOSE i \in 1..Len(d.v) : d.v[i].k = key].v
\* dict.get(key, default)
DictGet(d, key, default) == IF HasKey(d, key) THEN Item(d, key) ELSE default

NoOutcome == [kind |-> "none"]
Returned(v) == [kind |-> "return", value |-> v]
Raised(exc, info) == [kind |-> "raise", exc |-> exc, info |-> info]

\* what one frame of _send_events_with_retry does next
Retry == [next |-> "retry"]
Finish(o) == [next |-> "done", outcome |-> o]

\* SendResult without the defaults of data.get
SendResultNoDefaults(data) ==
    [num_sent |-> DictGet(data, "count", PyNone),
     errors |-> DictGet(data, "errors", PyNone)]

\* the (num_sent, errors) pair of a parsed body
SendResult(data) ==
    [num_sent |-> DictGet(data, "count", PyInt(0)),
     errors |-> DictGet(data, "errors", PyList(<<>>))]

\* HandleEventsResponse without the test of the body of a 400
HandleEventsResponseNoBodyTest(r, n) ==
    IF r.kind = "transport_error"
    THEN Finish(Raised("ConnectionError", [at |-> "requests.post"]))
    ELSE IF RaisesForStatus(r)
    THEN IF n > 0
         THEN Retry
         ELSE Finish(Raised("IOError", [at |-> "send_events", wraps |-> "HTTPError",
                                        status |-> r.status]))
    ELSE IF ~IsJson(r)
    THEN Finish(Raised("JSONDecodeError", [at |-> "r.json()"]))
    ELSE IF r.body.v.t # "dict"
    THEN Finish(Raised("AttributeError", [at |-> "data.get"]))
    ELSE Finish(Returned(SendResult(r.body.v)))

\* HandleEventsResponse that takes every 400 for a validation failure
HandleEventsResponseEvery400(r, n) ==
    IF r.kind = "transport_error"
    THEN Finish(Raised("ConnectionError", [at |-> "requests.post"]))
    ELSE IF r.status = 400
    THEN Finish(Raised("ValueError", [at |-> "server", message |-> r.body]))
    ELSE IF RaisesForStatus(r)
    THEN IF n > 0
         THEN Retry
         ELSE Finish(Raised("IOError", [at |-> "send_events", wraps |-> "HTTPError",
                                        status |-> r.status]))
    ELSE IF ~IsJson(r)
    THEN Finish(Raised("JSONDecodeError", [at |-> "r.json()"]))
    ELSE IF r.body.v.t # "dict"
    THEN Finish(Raised("AttributeError", [at |-> "data.get"]))
    ELSE Finish(Returned(SendResult(r.body.v)))

\* _send_events_with_retry from the answer of requests.post on, with n = num_retries
HandleEventsResponse(r, n) ==
    IF r.kind = "transport_error"
    THEN Finish(Raised("ConnectionError", [at |-> "requests.post"]))
    ELSE IF r.status = 400 /\ HasContent(r) /\ ~IsJson(r)
    THEN Finish(Raised("JSONDecodeError", [at |-> "r.json()"]))
    ELSE IF r.status = 400 /\ HasContent(r) /\ Truthy(r.body.v)
    THEN Finish(Raised("ValueError", [at |-> "server", message |-> r.body.v]))
    ELSE IF RaisesForStatus(r)
    THEN IF n > 0
         THEN Retry
         ELSE Finish(Raised("IOError", [at |-> "send_events", wraps |-> "HTTPError",
                                        status |-> r.status]))
    ELSE IF ~IsJson(r)
    THEN Finish(Raised("JSONDecodeError", [at |-> "r.json()"]))
    ELSE IF r.body.v.t # "dict"
    THEN Finish(Raised("AttributeError", [at |-> "data.get"]))
    ELSE Finish(Returned(SendResult(r.body.v)))

\* the request one frame posts
EventsRequest(id, key, fr) ==
    [method |-> "POST", url |-> EventsUrl,
     headers |-> BuildRequestHeaders(id, key),
     params |-> IF ~fr.validate
                THEN {[k |-> "ignore_invalid", v |-> PyBool(TRUE)]}
                ELSE {},
     json |-> [i \in 1..Len(fr.events) |-> AsDict(fr.events[i])]]

NoFrame == [events |-> <<>>, validate |-> TRUE, num_retries |-> -1]
\* send_events: self._send_events_with_retry(events, validate=validate, num_retries=_MAX_RETRIES)
FirstFrame(events, validate) ==
    [events |-> events, validate |-> validate, num_retries |-> _MAX_RETRIES]
\* RetryFrame that forgets the validate argument (it defaults to True)
RetryFrameDropsValidate(fr) ==
    [events |-> fr.events, validate |-> TRUE, num_retries |-> fr.num_retries - 1]

\* RetryFrame that counts the retries of all calls in one counter
RetryFrameSharedCounter(fr) ==
    LET inflight == {frame[d].num_retries : d \in {t \in {"t1", "t2"} : pc[t] = "post"}}
        least == CHOOSE n \in inflight : \A m \in inflight : n <= m
    IN  [events |-> fr.events, validate |-> fr.validate, num_retries |-> least - 1]

\* the recursive call: (events, validate=validate, num_retries=num_retries - 1)
RetryFrame(fr) ==
    [events |-> fr.events, validate |-> fr.validate, num_retries |-> fr.num_retries - 1]

\* FirstInvalid that reports the last invalid event
FirstInvalidLast(events) ==
    IF \E i \in 1..Len(events) : EventValidate(events[i]) # NoError
    THEN CHOOSE i \in 1..Len(events) :
            /\ EventValidate(events[i]) # NoError
            /\ \A j \in (i + 1)..Len(events) : EventValidate(events[j]) = NoError
    ELSE 0

\* the first event of the list, in order, that validate() raises on; 0 when none
FirstInvalid(events) ==
    IF \E i \in 1..Len(events) : EventValidate(events[i]) # NoError
    THEN CHOOSE i \in 1..Len(events) :
            /\ EventValidate(events[i]) # NoError
            /\ \A j \in 1..(i - 1) : EventValidate(events[j]) = NoError
    ELSE 0

(***************************************************************************)
(* Prediction results                                                      *)
(***************************************************************************)
MetaPrefix == <<"X", "-">>

\* index of the first occurrence of old in s; 0 when there is none
FirstIndexOf(s, old) ==
    IF \E i \in 1..(Len(s) - Len(old) + 1) : SubSeq(s, i, i + Len(old) - 1) = old
    THEN CHOOSE i \in 1..(Len(s) - Len(old) + 1) :
            /\ SubSeq(s, i, i + Len(old) - 1) = old
            /\ \A j \in 1..(i - 1) : SubSeq(s, j, j + Len(old) - 1) # old
    ELSE 0

\* s.replace(old, "", 1)
RemoveFirst(s, old) ==
    LET i == FirstIndexOf(s, old)
    IN  IF i = 0 THEN s ELSE SubSeq(s, 1, i - 1) \o SubSeq(s, i + Len(old), Len(s))

RECURSIVE MetaFrom(_, _)
MetaFrom(headers, i) ==
    IF i > Len(headers) THEN <<>>
    ELSE IF StartsWith(headers[i].k, MetaPrefix)
         THEN <<[k |-> RemoveFirst(headers[i].k, MetaPrefix), v |-> headers[i].v]>>
                  \o MetaFrom(headers, i + 1)
         ELSE MetaFrom(headers, i + 1)

\* GetMetaFromResponseHeaders that takes every header holding the marker anywhere
GetMetaFromHeadersHoldingMarker(r) ==
    LET marked == SelectSeq(r.headers, LAMBDA h : FirstIndexOf(h.k, MetaPrefix) # 0)
    IN  [i \in 1..Len(marked) |->
            [k |-> RemoveFirst(marked[i].k, MetaPrefix), v |-> marked[i].v]]

\* _get_meta_from_response_headers
GetMetaFromResponseHeaders(r) == MetaFrom(r.headers, 1)

RankResult(entities, scores, pid, name, meta) ==
    [cls |-> "RankResult", entities |-> entities, scores |-> scores,
     pid |-> pid, name |-> name, meta |-> meta]
ValueResult(cls, value, pid, name, meta) ==
    [cls |-> cls, value |-> value, pid |-> pid, name |-> name, meta |-> meta]

ResultClass(op) ==
    CASE op = "predict" -> "NumericPredictionResult"
      [] op = "anticipate" -> "AnticipateResult"
      [] op = "custom" -> "CustomResult"
      [] OTHER -> "RankResult"

PredictorTypes == <<"rank", "predict", "anticipate", "custom">>
TypeChars(ty) ==
    CASE ty = "rank" -> <<"r", "a", "n", "k">>
      [] ty = "predict" -> <<"p", "r", "e", "d", "i", "c", "t">>
      [] ty = "anticipate" -> <<"a", "n", "t", "i", "c", "i", "p", "a", "t", "e">>
      [] ty = "custom" -> <<"c", "u", "s", "t", "o", "m">>

\* HaroAPIClient._get_predictor_type_from_pid: the type, or "ValueError" when it raises
GetPredictorTypeFromPid(pid) ==
    IF \E i \in 1..Len(PredictorTypes) : StartsWith(pid, TypeChars(PredictorTypes[i]))
    THEN PredictorTypes[CHOOSE i \in 1..Len(PredictorTypes) :
            /\ StartsWith(pid, TypeChars(PredictorTypes[i]))
            /\ \A j \in 1..(i - 1) : ~StartsWith(pid, TypeChars(PredictorTypes[j]))]
    ELSE "ValueError"

\* the typed result of one record of the all-predictions array (meta left empty)
RecordResult(ty, rec) ==
    IF ty = "rank"
    THEN RankResult(Item(Item(rec, "predictions"), "entities"),
                    DictGet(Item(rec, "predictions"), "scores", PyNone),
                    Item(rec, "pid"), Item(rec, "name"), <<>>)
    ELSE ValueResult(ResultClass(ty), Item(Item(rec, "predictions"), "value"),
                     Item(rec, "pid"), Item(rec, "name"), <<>>)

\* the key the record's type reads from its predictions
ValueKey(ty) == IF ty = "rank" THEN "entities" ELSE "value"

\* the loop of all_predictions from record i on, with acc the results so far
RECURSIVE MapPredictions(_, _, _)
MapPredictions(response, i, acc) ==
    IF i > Len(response) THEN Returned(acc)
    ELSE LET rec == response[i]
         IN  IF ~HasKey(rec, "pid")
             THEN Raised("KeyError", [at |-> "pid"])
             ELSE LET ty == GetPredictorTypeFromPid(Item(rec, "pid").v)
                  IN  IF ty = "ValueError"
                      THEN Raised("ValueError", [at |-> "_get_predictor_type_from_pid",
                                                 pid |-> Item(rec, "pid")])
                      ELSE IF \/ ~HasKey(rec, "predictions")
                              \/ ~HasKey(Item(rec, "predictions"), ValueKey(ty))
                              \/ ~HasKey(rec, "name")
                           THEN Raised("KeyError", [at |-> "record"])
                           ELSE MapPredictions(response, i + 1,
                                               Append(acc, RecordResult(ty, rec)))

\* rank / predict / anticipate / custom from the answer of requests.get on
HandlePrediction(op, r, pid, name) ==
    IF r.kind = "transport_error"
    THEN Raised("ConnectionError", [at |-> "requests.get"])
    ELSE IF RaisesForStatus(r)
    THEN Raised("IOError", [at |-> op, wraps |-> "HTTPError", status |-> r.status])
    ELSE IF ~IsJson(r)
    THEN Raised("JSONDecodeError", [at |-> "r.json()"])
    ELSE IF r.body.v.t # "dict"
    THEN Raised("TypeError", [at |-> "response[...]"])
    ELSE IF ~HasKey(r.body.v, ValueKey(op))
    THEN Raised("KeyError", [at |-> ValueKey(op)])
    ELSE IF op = "rank"
    THEN Returned(RankResult(Item(r.body.v, "entities"),
                             DictGet(r.body.v, "scores", PyNone),
                             pid, name, GetMetaFromResponseHeaders(r)))
    ELSE Returned(ValueResult(ResultClass(op), Item(r.body.v, "value"),
                              pid, name, GetMetaFromResponseHeaders(r)))

\* all_predictions from the answer of requests.get on
HandleAllPredictions(r) ==
    IF r.kind = "transport_error"
    THEN Raised("ConnectionError", [at |-> "requests.get"])
    ELSE IF RaisesForStatus(r)
    THEN Raised("IOError", [at |-> "all_predictions", wraps |-> "HTTPError",
                            status |-> r.status])
    ELSE IF ~IsJson(r)
    THEN Raised("JSONDecodeError", [at |-> "r.json()"])
    ELSE IF r.body.v.t = "list"
    THEN MapPredictions(r.body.v.v, 1, <<>>)
    ELSE IF r.body.v.t \in {"dict", "str"} /\ Len(r.body.v.v) = 0
    THEN Returned(<<>>)                       \* nothing to iterate over
    ELSE Raised("TypeError", [at |-> "for result in response"])

\* the query parameters of rank (include_scores defaults to False, never None)
RankParams(c) ==
    (IF c.subset # PyNone THEN {[k |-> "subset", v |-> [t |-> "json", v |-> c.subset]]} ELSE {})
    \cup (IF c.top # PyNone THEN {[k |-> "top", v |-> c.top]} ELSE {})
    \cup (IF c.include_scores # PyNone
          THEN {[k |-> "include_scores", v |-> c.include_scores]} ELSE {})
    \cup (IF c.name # PyNone THEN {[k |-> "name", v |-> c.name]} ELSE {})
NameParams(c) ==
    IF c.name # PyNone THEN {[k |-> "name", v |-> c.name]} ELSE {}
AllParams(c) ==
    (IF c.top # PyNone THEN {[k |-> "top", v |-> c.top]} ELSE {})
    \cup (IF c.include_scores # PyNone
          THEN {[k |-> "include_scores", v |-> c.include_scores]} ELSE {})

PredictionRequest(id, key, c) ==
    [method |-> "GET",
     url |-> IF c.op = "all_predictions" THEN AllPredictionsUrl(c.user)
             ELSE PredictionUrl(c.op, c.pid, c.user),
     headers |-> BuildRequestHeaders(id, key),
     params |-> CASE c.op = "rank" -> RankParams(c)
                  [] c.op = "all_predictions" -> AllParams(c)
                  [] OTHER -> NameParams(c)]

(***************************************************************************)
(* The calls threads make and the answers of the remote endpoints          *)
(***************************************************************************)
MaxEvents == 2        \* longest event list submitted
MaxPredictions == 2   \* longest all-predictions array

Threads == {"t1", "t2"}

Call(op, events, validate, pid, subset, top, include_scores, name) ==
    [op |-> op, events |-> events, validate |-> validate, pid |-> pid, user |-> "u1",
     subset |-> subset, top |-> top, include_scores |-> include_scores, name |-> name]
NoCall == Call("none", <<>>, TRUE, PyNone, PyNone, PyNone, PyNone, PyNone)

EvGood ==
    NewEvent(PyStr(<<"e", "1">>), PyStr(<<"a", "_", "1">>), PyStr(<<"i", "-", "1">>), 1,
             PyStr(Str_u1), PyDict(<<[k |-> PyStr(Str_k1), v |-> PyFloat(3)]>>))
EvBadAction ==
    NewEvent(PyStr(<<"e", "2">>), PyStr(Str_bad), PyStr(<<"i", "1">>), 1,
             PyStr(Str_u1), PyNone)
EvIntKey ==
    NewEvent(PyStr(<<"e", "3">>), PyStr(<<"a", "1">>), PyStr(<<"i", "1">>), 1,
             PyStr(Str_u1), PyDict(<<[k |-> PyInt(7), v |-> PyStr(Str_v1)]>>))
EventPool == {EvGood, EvBadAction, EvIntKey}
EventLists == UNION {[1..n -> EventPool] : n \in 0..MaxEvents}

SendCall(events, validate) ==
    Call("send_events", events, validate, PyNone, PyNone, PyNone, PyBool(FALSE), PyNone)
SendCalls == {SendCall(evs, v) : evs \in EventLists, v \in BOOLEAN}

Pid(ty) == PyStr(TypeChars(ty) \o <<"-", "1">>)
Names == {PyNone, PyStr(<<"v", "2">>)}
RankCalls ==
    {Call("rank", <<>>, TRUE, Pid("rank"), sub, top, inc, nm) :
        sub \in {PyNone, PyList(<<PyStr(<<"i", "1">>)>>)}, top \in {PyNone, PyInt(2)},
        inc \in {PyBool(FALSE), PyBool(TRUE)}, nm \in Names}
ValueCalls ==
    {Call(op, <<>>, TRUE, Pid(op), PyNone, PyNone, PyBool(FALSE), nm) :
        op \in {"predict", "anticipate", "custom"}, nm \in Names}
AllCalls ==
    {Call("all_predictions", <<>>, TRUE, PyNone, PyNone, top, inc, PyNone) :
        top \in {PyNone, PyInt(2)}, inc \in {PyBool(FALSE), PyBool(TRUE)}}
ClientCalls == SendCalls \cup RankCalls \cup ValueCalls \cup AllCalls

ValidateCalls ==
    {Call("validate", <<e>>, TRUE, PyNone, PyNone, PyNone, PyNone, PyNone) : e \in InputEvents}

Obj(items) == BodyJson(PyDict(items))
MsgBad == PyStr(<<"b", "a", "d">>)
JCount2 == Obj(<<[k |-> "count", v |-> PyInt(2)]>>)
JCountErrors == Obj(<<[k |-> "count", v |-> PyInt(1)], [k |-> "errors", v |-> PyList(<<MsgBad>>)]>>)
JErrors == Obj(<<[k |-> "errors", v |-> PyList(<<MsgBad>>)]>>)
JMessage == Obj(<<[k |-> "message", v |-> MsgBad]>>)
JEmptyObj == Obj(<<>>)
JEmptyList == BodyJson(PyList(<<>>))
JList == BodyJson(PyList(<<MsgBad>>))

EventsResponses ==
    {Http(200, <<>>, b) : b \in {BodyEmpty, BodyText, JEmptyObj, JCount2, JCountErrors,
                                 JErrors, JList}}
    \cup {Http(300, <<>>, JCount2)}
    \cup {Http(400, <<>>, b) : b \in {BodyEmpty, BodyText, JEmptyObj, JEmptyList,
                                      JMessage, JList}}
    \cup {Http(404, <<>>, JMessage), Http(503, <<>>, BodyEmpty), TransportError}

Hdr(k, v) == [k |-> k, v |-> v]
HeadersNone == <<Hdr(<<"o", "t", "h", "e", "r">>, "present")>>
HeadersInfo == <<Hdr(<<"X", "-", "I", "N", "F", "O">>, "some-value"),
                 Hdr(<<"o", "t", "h", "e", "r">>, "present")>>
HeadersMixed == <<Hdr(<<"x", "-", "l", "o", "w">>, "lower"),
                  Hdr(<<"X", "-", "X", "-", "A">>, "twice"),
                  Hdr(<<"A", "X", "-">>, "inside")>>

Entities == PyList(<<PyStr(<<"i", "3">>), PyStr(<<"i", "1">>)>>)
Scores == PyList(<<PyFloat(79), PyFloat(43)>>)
JRank == Obj(<<[k |-> "entities", v |-> Entities], [k |-> "scores", v |-> Scores]>>)
JRankNoScores == Obj(<<[k |-> "entities", v |-> Entities]>>)
JValue == Obj(<<[k |-> "value", v |-> PyFloat(31)]>>)

PredictionResponses ==
    {Http(200, HeadersInfo, JRank), Http(200, HeadersNone, JRankNoScores),
     Http(200, HeadersInfo, JValue), Http(200, HeadersMixed, JValue),
     Http(200, HeadersNone, BodyText), Http(300, HeadersNone, JValue),
     Http(300, HeadersInfo, JRank), Http(404, HeadersNone, BodyText),
     Http(500, HeadersInfo, JValue), TransportError}

Rec(pid, name, predictions) ==
    PyDict(<<[k |-> "pid", v |-> pid], [k |-> "name", v |-> name],
             [k |-> "predictions", v |-> predictions]>>)
PredictionRecords ==
    {Rec(Pid("rank"), PyStr(<<"r">>), JRank.v),
     Rec(Pid("predict"), PyStr(<<"p">>), JValue.v),
     Rec(Pid("anticipate"), PyStr(<<"a">>), JValue.v),
     Rec(Pid("custom"), PyStr(<<"c">>), JValue.v),
     Rec(PyStr(<<"f", "o", "o", "-", "1">>), PyStr(<<"f">>), JValue.v)}
PredictionArrays == UNION {[1..n -> PredictionRecords] : n \in 0..MaxPredictions}

AllPredictionsResponses ==
    {Http(200, <<>>, BodyJson(PyList(a))) : a \in PredictionArrays}
    \cup {Http(200, <<>>, BodyText), Http(300, <<>>, BodyJson(PyList(<<>>))),
          Http(404, <<>>, JMessage), Http(500, <<>>, BodyEmpty), TransportError}

FullServer ==
    [events |-> EventsResponses, predictions |-> PredictionResponses,
     all_predictions |-> AllPredictionsResponses]

\* a small repertoire and a few calls, for runs with two threads
SmallServer ==
    [events |-> {Http(200, <<>>, JCount2), Http(503, <<>>, BodyEmpty),
                 Http(400, <<>>, JMessage), Http(400, <<>>, JEmptyObj)},
     predictions |-> {Http(200, HeadersInfo, JRank), Http(200, HeadersInfo, JValue),
                      Http(404, HeadersNone, BodyText)},
     all_predictions |-> {Http(200, <<>>, BodyJson(PyList(<<Rec(Pid("rank"), PyStr(<<"r">>), JRank.v)>>))),
                          Http(500, <<>>, BodyEmpty)}]
SmallCalls ==
    {SendCall(<<EvGood>>, TRUE), SendCall(<<EvBadAction, EvGood>>, FALSE),
     Call("rank", <<>>, TRUE, Pid("rank"), PyNone, PyNone, PyBool(FALSE), PyNone),
     Call("predict", <<>>, TRUE, Pid("predict"), PyNone, PyNone, PyBool(FALSE), PyNone),
     Call("anticipate", <<>>, TRUE, Pid("anticipate"), PyNone, PyNone, PyBool(FALSE), PyNone),
     Call("custom", <<>>, TRUE, Pid("custom"), PyNone, PyNone, PyBool(FALSE), PyNone),
     Call("all_predictions", <<>>, TRUE, PyNone, PyNone, PyNone, PyBool(FALSE), PyNone)}

(***************************************************************************)
(* Initial states                                                          *)
(***************************************************************************)
InitWith(calls, srv) ==
    /\ api_id = "test-api-id"
    /\ api_key = "test-api-key"
    /\ server = srv
    /\ call \in calls
    /\ pc = [c \in Threads |-> IF call[c] = NoCall THEN "off" ELSE "start"]
    /\ frame = [c \in Threads |-> NoFrame]
    /\ history = [c \in Threads |-> <<>>]
    /\ outcome = [c \in Threads |-> NoOutcome]

\* one thread calls the client
Init ==
    InitWith({f \in [Threads -> ClientCalls \cup {NoCall}] :
                 f["t1"] # NoCall /\ f["t2"] = NoCall}, FullServer)

\* one thread calls Event.validate
InitValidate ==
    InitWith({f \in [Threads -> ValidateCalls \cup {NoCall}] :
                 f["t1"] # NoCall /\ f["t2"] = NoCall}, FullServer)

\* two threads call the same client at the same time
InitConcurrent == InitWith([Threads -> SmallCalls], SmallServer)

(***************************************************************************)
(* Actions                                                                 *)
(***************************************************************************)
\* Event.validate, called directly
Validate(c) ==
    /\ pc[c] = "start"
    /\ call[c].op = "validate"
    /\ LET err == EventValidate(call[c].events[1])
       IN  outcome' = [outcome EXCEPT ![c] =
                          IF err = NoError THEN Returned(PyNone)
                          ELSE Raised(err.exc, err)]
    /\ pc' = [pc EXCEPT ![c] = "done"]
    /\ UNCHANGED <<api_id, api_key, server, call, frame, history>>

\* send_events up to its call of _send_events_with_retry
SendEvents(c) ==
    /\ pc[c] = "start"
    /\ call[c].op = "send_events"
    /\ LET bad == IF call[c].validate THEN FirstInvalid(call[c].events) ELSE 0
       IN  IF bad # 0
           THEN /\ outcome' = [outcome EXCEPT ![c] =
                      Raised(EventValidate(call[c].events[bad]).exc,
                             [at |-> "event", index |-> bad,
                              error |-> EventValidate(call[c].events[bad])])]
                /\ pc' = [pc EXCEPT ![c] = "done"]
                /\ frame' = frame
           ELSE /\ frame' = [frame EXCEPT ![c] = FirstFrame(call[c].events, call[c].validate)]
                /\ pc' = [pc EXCEPT ![c] = "post"]
                /\ outcome' = outcome
    /\ UNCHANGED <<api_id, api_key, server, call, history>>

\* one frame of _send_events_with_retry: a POST and what follows from its answer
SendEventsWithRetry(c) ==
    /\ pc[c] = "post"
    /\ \E r \in server.events :
          LET step == HandleEventsResponse(r, frame[c].num_retries)
          IN  /\ history' = [history EXCEPT ![c] =
                     Append(@, [req |-> EventsRequest(api_id, api_key, frame[c]), resp |-> r])]
              /\ IF step.next = "retry"
                 THEN /\ frame' = [frame EXCEPT ![c] = RetryFrame(frame[c])]
                      /\ UNCHANGED <<pc, outcome>>
                 ELSE /\ outcome' = [outcome EXCEPT ![c] = step.outcome]
                      /\ pc' = [pc EXCEPT ![c] = "done"]
                      /\ frame' = frame
    /\ UNCHANGED <<api_id, api_key, server, call>>

\* rank, predict, anticipate, custom: one GET and the result made of its answer
Prediction(c, op) ==
    /\ pc[c] = "start"
    /\ \E r \in server.predictions :
          /\ history' = [history EXCEPT ![c] =
                 Append(@, [req |-> PredictionRequest(api_id, api_key, call[c]), resp |-> r])]
          /\ outcome' = [outcome EXCEPT ![c] =
                 HandlePrediction(op, r, call[c].pid, call[c].name)]
    /\ pc' = [pc EXCEPT ![c] = "done"]
    /\ UNCHANGED <<api_id, api_key, server, call, frame>>

Rank(c) ==
    /\ call[c].op = "rank"
    /\ Prediction(c, "rank")

Predict(c) ==
    /\ call[c].op = "predict"
    /\ Prediction(c, "predict")

Anticipate(c) ==
    /\ call[c].op = "anticipate"
    /\ Prediction(c, "anticipate")

Custom(c) ==
    /\ call[c].op = "custom"
    /\ Prediction(c, "custom")

AllPredictions(c) ==
    /\ pc[c] = "start"
    /\ call[c].op = "all_predictions"
    /\ \E r \in server.all_predictions :
          /\ history' = [history EXCEPT ![c] =
                 Append(@, [req |-> PredictionRequest(api_id, api_key, call[c]), resp |-> r])]
          /\ outcome' = [outcome EXCEPT ![c] = HandleAllPredictions(r)]
    /\ pc' = [pc EXCEPT ![c] = "done"]
    /\ UNCHANGED <<api_id, api_key, server, call, frame>>

Next ==
    \E c \in Threads :
        \/ SendEvents(c)
        \/ SendEventsWithRetry(c)
        \/ Rank(c)
        \/ Predict(c)
        \/ Anticipate(c)
        \/ Custom(c)
        \/ AllPredictions(c)

NextValidate == \E c \in Threads : Validate(c)

Spec == Init /\ [][Next]_vars
SpecValidate == InitValidate /\ [][NextValidate]_vars
SpecConcurrent == InitConcurrent /\ [][Next]_vars

(***************************************************************************)
(* Properties                                                              *)
(***************************************************************************)
SendThreads == {c \in Threads : call[c].op = "send_events"}
ReadThreads ==
    {c \in Threads : call[c].op \in {"rank", "predict", "anticipate", "custom",
                                     "all_predictions"}}
Posts(c) == Len(history[c])
Resp(c, i) == history[c][i].resp
IsHttp(r) == r.kind = "http"
IsSuccess(r) == IsHttp(r) /\ r.status >= 200 /\ r.status < 300
IsErrorStatus(r) == IsHttp(r) /\ r.status >= 400 /\ r.status < 600
RaisedExc(c, exc) == outcome[c].kind = "raise" /\ outcome[c].exc = exc

\* C1: when every POST of a send_events call is answered with a 4xx or 5xx
\* status, other than a 400 carrying a non-empty JSON body, the call makes
\* exactly 4 POSTs and then fails with an IOError: never a 5th request, never
\* a failure after fewer than 4.
C1_InScope(r) ==
    /\ IsErrorStatus(r)
    /\ ~(r.status = 400 /\ r.body.kind = "json")
C1_FourPostsThenIOError ==
    \A c \in SendThreads :
        (Posts(c) >= 1 /\ \A i \in 1..Posts(c) : C1_InScope(Resp(c, i)))
        => /\ Posts(c) <= _MAX_RETRIES + 1
           /\ pc[c] = "done" => (Posts(c) = _MAX_RETRIES + 1 /\ RaisedExc(c, "IOError"))
           /\ Posts(c) = _MAX_RETRIES + 1 => pc[c] = "done"

\* C2: when every POST of a send_events call fails at the transport level, the
\* call makes exactly 4 attempts and then fails with an IOError wrapping the
\* last failure: transport failures are retried like failure statuses.
C2_TransportFailuresRetried ==
    \A c \in SendThreads :
        (Posts(c) >= 1 /\ \A i \in 1..Posts(c) : Resp(c, i) = TransportError)
        => /\ pc[c] = "done" => (Posts(c) = _MAX_RETRIES + 1 /\ RaisedExc(c, "IOError"))
           /\ Posts(c) < _MAX_RETRIES + 1 => pc[c] = "post"

\* C3, as stated: at whichever attempt the answer is a 400 with a non-empty
\* JSON body, whatever it decodes to, the call fails at once with a ValueError
\* and no further POST is made.
C3_Any400JsonBodyEndsCall ==
    \A c \in SendThreads : \A i \in 1..Posts(c) :
        (IsHttp(Resp(c, i)) /\ Resp(c, i).status = 400 /\ Resp(c, i).body.kind = "json")
        => /\ i = Posts(c)
           /\ pc[c] = "done"
           /\ RaisedExc(c, "ValueError")

\* C3, amended: at whichever attempt the answer is a 400 whose JSON body
\* decodes to a truthy value, the call fails at once with a ValueError carrying
\* that value, no further POST is made, and the retries left are those the
\* attempt was made with.
C3_Truthy400BodyEndsCall ==
    \A c \in SendThreads : \A i \in 1..Posts(c) :
        (/\ IsHttp(Resp(c, i))
         /\ Resp(c, i).status = 400
         /\ Resp(c, i).body.kind = "json"
         /\ Truthy(Resp(c, i).body.v))
        => /\ i = Posts(c)
           /\ pc[c] = "done"
           /\ outcome[c] = Raised("ValueError",
                                  [at |-> "server", message |-> Resp(c, i).body.v])
           /\ frame[c].num_retries = _MAX_RETRIES - (i - 1)

C3_Witness ==
    \E c \in SendThreads :
        /\ Posts(c) = 3
        /\ Resp(c, 3) = Http(400, <<>>, JList)
        /\ RaisedExc(c, "ValueError")
        /\ frame[c].num_retries = 1

C5_KnownPid(rec) == GetPredictorTypeFromPid(Item(rec, "pid").v) # "ValueError"
C5_UnknownPrefixSkipped ==
    \A c \in Threads :
        (/\ call[c].op = "all_predictions"
         /\ pc[c] = "done"
         /\ IsSuccess(Resp(c, 1))
         /\ Resp(c, 1).body.kind = "json"
         /\ Resp(c, 1).body.v.t = "list")
        => LET known == SelectSeq(Resp(c, 1).body.v.v, C5_KnownPid)
           IN  outcome[c] =
                 Returned([i \in 1..Len(known) |->
                    RecordResult(GetPredictorTypeFromPid(Item(known[i], "pid").v), known[i])])

\* C6: a call of rank, predict, anticipate, custom or all_predictions makes
\* exactly one GET; when it ends with a non-success status the call fails with
\* an IOError, makes no second request and returns no result.
C6_OneGetAndIOErrorOnNonSuccess ==
    \A c \in ReadThreads :
        /\ Posts(c) <= 1
        /\ pc[c] = "done" => Posts(c) = 1
        /\ (pc[c] = "done" /\ IsHttp(Resp(c, 1)) /\ ~IsSuccess(Resp(c, 1)))
           => RaisedExc(c, "IOError")

\* C7: the first success answer ends send_events: it is the last POST, and when
\* its body is a JSON object the call returns the body's count (0 when absent)
\* and errors (empty when absent), on whichever of the 4 attempts it comes.
C7_FirstSuccessEndsCall ==
    \A c \in SendThreads : \A i \in 1..Posts(c) :
        IsSuccess(Resp(c, i))
        => /\ i = Posts(c)
           /\ pc[c] = "done"
           /\ (Resp(c, i).body.kind = "json" /\ Resp(c, i).body.v.t = "dict")
              => LET data == Resp(c, i).body.v
                 IN  /\ outcome[c].kind = "return"
                     /\ outcome[c].value.num_sent =
                           IF HasKey(data, "count") THEN Item(data, "count") ELSE PyInt(0)
                     /\ outcome[c].value.errors =
                           IF HasKey(data, "errors") THEN Item(data, "errors")
                           ELSE PyList(<<>>)

C7_Witness ==
    \E c \in SendThreads :
        /\ Posts(c) = _MAX_RETRIES + 1
        /\ Resp(c, Posts(c)) = Http(200, <<>>, JErrors)
        /\ Len(call[c].events) = 2
        /\ outcome[c] = Returned([num_sent |-> PyInt(0), errors |-> PyList(<<MsgBad>>)])

\* C8: Event.validate() returns exactly when id, action, item and user are
\* strings of 1 to 128 letters, digits, dots, underscores and hyphens, the
\* timestamp converts to a date, the context is a mapping, every context key
\* matches the same pattern and every context value is a string or a number;
\* otherwise it raises ValueError.
C8_Ident(x) ==
    /\ x.t = "str"
    /\ Len(x.v) >= 1
    /\ Len(x.v) <= MAX_IDENT_LEN
    /\ \A i \in 1..Len(x.v) : x.v[i] \in ClassChars
C8_WellFormed(e) ==
    /\ \A f \in {"id", "action", "item", "user"} : C8_Ident(e[f])
    /\ FromTimestampOk(e.timestamp)
    /\ e.context.t = "dict"
    /\ \A i \in 1..Len(e.context.v) :
          /\ C8_Ident(e.context.v[i].k)
          /\ e.context.v[i].v.t \in {"str", "int", "float", "bool"}
C8_ValidateIffWellFormed ==
    \A c \in Threads :
        (call[c].op = "validate" /\ pc[c] = "done")
        => IF C8_WellFormed(call[c].events[1])
           THEN outcome[c] = Returned(PyNone)
           ELSE RaisedExc(c, "ValueError")

\* C9: every POST of one send_events call carries the same request: the
\* caller's events serialised in order, the client's auth headers, and the
\* ignore_invalid parameter exactly when validate is False; with validate
\* False nothing is validated and invalid events are transmitted.
C9_Expected(c) ==
    [method |-> "POST",
     url |-> [endpoint |-> "https://events.haro.io", version |-> "v16.10", path |-> "events"],
     headers |-> {[k |-> "Content-Type", v |-> "application/json"],
                  [k |-> "Accept", v |-> "application/json"],
                  [k |-> "X-API-ID", v |-> api_id],
                  [k |-> "X-API-KEY", v |-> api_key]},
     params |-> IF call[c].validate THEN {}
                ELSE {[k |-> "ignore_invalid", v |-> PyBool(TRUE)]},
     json |-> [i \in 1..Len(call[c].events) |->
                 [id |-> call[c].events[i].id, action |-> call[c].events[i].action,
                  item |-> call[c].events[i].item, ts |-> call[c].events[i].timestamp,
                  user |-> call[c].events[i].user, context |-> call[c].events[i].context]]]
C9_SameRequestEveryAttempt ==
    \A c \in SendThreads :
        /\ \A i \in 1..Posts(c) : history[c][i].req = C9_Expected(c)
        /\ (~call[c].validate /\ pc[c] = "done") => Posts(c) >= 1

C9_Witness ==
    \E c \in SendThreads :
        /\ ~call[c].validate
        /\ call[c].events = <<EvBadAction, EvGood>>
        /\ Posts(c) = _MAX_RETRIES + 1
        /\ pc[c] = "done"

\* C10: concurrent calls on one client do not interfere: each send_events call
\* makes at most 4 POSTs, has the retries left that its own failed attempts
\* leave it, ends as the answers to its own attempts decide, every step
\* changes the state of one call only, and api_id and api_key never change.
C10_OwnOutcome(c) ==
    \A i \in 1..Posts(c) :
        LET step == HandleEventsResponse(Resp(c, i), _MAX_RETRIES - (i - 1))
        IN  IF i < Posts(c) \/ pc[c] = "post"
            THEN step.next = "retry"
            ELSE step.next = "done" /\ step.outcome = outcome[c]
C10_OwnBudget ==
    \A c \in SendThreads :
        /\ Posts(c) <= _MAX_RETRIES + 1
        /\ pc[c] = "post" => frame[c].num_retries = _MAX_RETRIES - Posts(c)
        /\ C10_OwnOutcome(c)
C10_OneCallPerStep ==
    /\ api_id' = api_id
    /\ api_key' = api_key
    /\ \E c \in Threads : \A d \in Threads \ {c} :
          /\ call'[d] = call[d]
          /\ pc'[d] = pc[d]
          /\ frame'[d] = frame[d]
          /\ history'[d] = history[d]
          /\ outcome'[d] = outcome[d]
C10_NoInterference == [](C10_OwnBudget) /\ [][C10_OneCallPerStep]_vars

C10_Witness ==
    /\ SendThreads = Threads
    /\ pc["t1"] = "done"
    /\ Posts("t1") = _MAX_RETRIES + 1
    /\ RaisedExc("t1", "IOError")
    /\ pc["t2"] = "post"
    /\ Posts("t2") = 1
    /\ frame["t2"].num_retries = _MAX_RETRIES - 1

\* C11: the result of a rank, predict, anticipate or custom call that returns
\* carries the caller's pid and name, and its meta mapping has exactly one
\* entry for each response header whose name begins with X-, keyed by the name
\* without its first two characters and carrying the header's value; headers
\* whose name does not begin with X- (lower-case x-, X- further inside) give
\* no entry.
C11_Marked(h) == Len(h.k) >= 2 /\ h.k[1] = "X" /\ h.k[2] = "-"
C11_Entry(h) == [k |-> [i \in 1..(Len(h.k) - 2) |-> h.k[i + 2]], v |-> h.v]
C11_MetaIsMarkedHeaders ==
    \A c \in Threads :
        (/\ call[c].op \in {"rank", "predict", "anticipate", "custom"}
         /\ pc[c] = "done"
         /\ outcome[c].kind = "return")
        => LET hs == Resp(c, 1).headers
               marked == {i \in 1..Len(hs) : C11_Marked(hs[i])}
               meta == outcome[c].value.meta
           IN  /\ outcome[c].value.pid = call[c].pid
               /\ outcome[c].value.name = call[c].name
               /\ Len(meta) = Cardinality(marked)
               /\ \A i \in marked :
                      Cardinality({j \in 1..Len(meta) : meta[j].k = C11_Entry(hs[i]).k}) = 1
               /\ \A i \in marked : \E j \in 1..Len(meta) : meta[j] = C11_Entry(hs[i])
               /\ \A j \in 1..Len(meta) : \E i \in marked : meta[j] = C11_Entry(hs[i])

C11_Witness ==
    \E c \in Threads :
        /\ call[c].op = "anticipate"
        /\ call[c].name = PyStr(<<"v", "2">>)
        /\ pc[c] = "done"
        /\ Resp(c, 1) = Http(200, HeadersMixed, JValue)
        /\ outcome[c].kind = "return"
        /\ outcome[c].value.name = PyStr(<<"v", "2">>)
        /\ outcome[c].value.meta = <<[k |-> <<"X", "-", "A">>, v |-> "twice"]>>

\* C12: in send_events an answer whose status is not 2xx, other than a 400
\* with a non-empty JSON body, goes to the retry policy whatever its status
\* class: it never ends the call with a returned (count, errors) result.
C12_ToRetryPolicy(r) ==
    /\ IsHttp(r)
    /\ ~IsSuccess(r)
    /\ ~(r.status = 400 /\ r.body.kind = "json")
C12_NonSuccessNeverReturned ==
    \A c \in SendThreads : \A i \in 1..Posts(c) :
        C12_ToRetryPolicy(Resp(c, i))
        => ~(i = Posts(c) /\ pc[c] = "done" /\ outcome[c].kind = "return")

\* the single checks of Event.validate on an event, and the first that fails
C13_Fields == <<"id", "action", "item", "user">>
C13_Check(check, at, idx, fails) == [check |-> check, at |-> at, idx |-> idx, fails |-> fails]
C13_Required(e, f) == C13_Check("required", f, 0, e[f].t = "None")
C13_Pattern(e, f) == C13_Check("pattern", f, 0, e[f].t # "str" \/ ~ReMatch(e[f].v))
C13_Timestamp(e) ==
    C13_Check("timestamp", "timestamp", 0, e.timestamp < TS_MIN \/ e.timestamp > TS_MAX)
C13_Mapping(e) == C13_Check("context", "context", 0, e.context.t # "dict")
C13_Key(e, j) ==
    C13_Check("key", "context", j,
              e.context.v[j].k.t # "str" \/ ~ReMatch(e.context.v[j].k.v))
C13_Value(e, j) ==
    C13_Check("value", "context", j,
              e.context.v[j].v.t \notin {"str", "int", "float", "bool"})
C13_Entries(e) == IF e.context.t = "dict" THEN Len(e.context.v) ELSE 0

\* the order the claim states: all presences, all patterns, timestamp, mapping,
\* all keys, all values
C13_ClaimedChecks(e) ==
    LET n == C13_Entries(e)
    IN  [i \in 1..(10 + 2 * n) |->
            IF i <= 4 THEN C13_Required(e, C13_Fields[i])
            ELSE IF i <= 8 THEN C13_Pattern(e, C13_Fields[i - 4])
            ELSE IF i = 9 THEN C13_Timestamp(e)
            ELSE IF i = 10 THEN C13_Mapping(e)
            ELSE IF i <= 10 + n THEN C13_Key(e, i - 10)
            ELSE C13_Value(e, i - 10 - n)]

\* field by field (presence, then pattern), timestamp, mapping, then entry by
\* entry (key, then value)
C13_FieldwiseChecks(e) ==
    LET n == C13_Entries(e)
    IN  [i \in 1..(10 + 2 * n) |->
            IF i <= 8
            THEN IF i % 2 = 1 THEN C13_Required(e, C13_Fields[(i + 1) \div 2])
                 ELSE C13_Pattern(e, C13_Fields[i \div 2])
            ELSE IF i = 9 THEN C13_Timestamp(e)
            ELSE IF i = 10 THEN C13_Mapping(e)
            ELSE IF i % 2 = 1 THEN C13_Key(e, (i - 9) \div 2)
            ELSE C13_Value(e, (i - 10) \div 2)]

C13_AnyFails(checks) == \E i \in 1..Len(checks) : checks[i].fails
C13_FirstFailing(checks) ==
    checks[CHOOSE i \in 1..Len(checks) :
              /\ checks[i].fails
              /\ \A j \in 1..(i - 1) : ~checks[j].fails]

C13_Reports(c, checks) ==
    IF C13_AnyFails(checks)
    THEN /\ outcome[c].kind = "raise"
         /\ outcome[c].info.check = C13_FirstFailing(checks).check
         /\ outcome[c].info.at = C13_FirstFailing(checks).at
         /\ outcome[c].info.idx = C13_FirstFailing(checks).idx
    ELSE outcome[c] = Returned(PyNone)

C13_Validated == {c \in Threads : call[c].op = "validate" /\ pc[c] = "done"}

C13_FirstInOrder ==
    \A c \in C13_Validated :
        LET e == call[c].events[1]
            checks == C13_FieldwiseChecks(e)
        IN  /\ C13_Reports(c, checks)
            /\ C13_AnyFails(checks) =>
                  LET first == C13_FirstFailing(checks)
                  IN  outcome[c].exc =
                        IF first.check = "key" /\ e.context.v[first.idx].k.t # "str"
                        THEN "TypeError" ELSE "ValueError"
C13_EventUnchanged == \A c \in Threads : call'[c].events = call[c].events
C14_Falsy400(r) ==
    /\ IsHttp(r)
    /\ r.status = 400
    /\ \/ r.body.kind = "empty"
       \/ r.body.kind = "json" /\ ~Truthy(r.body.v)
C14_Falsy400IsRetried ==
    \A c \in SendThreads : \A i \in 1..Posts(c) :
        C14_Falsy400(Resp(c, i))
        => IF i <= _MAX_RETRIES
           THEN /\ i < Posts(c) \/ pc[c] = "post"
                /\ i = Posts(c) => frame[c].num_retries = _MAX_RETRIES - i
           ELSE /\ i = Posts(c)
                /\ pc[c] = "done"
                /\ outcome[c] = Raised("IOError", [at |-> "send_events", wraps |-> "HTTPError",
                                                     status |-> 400])

C14_Witness ==
    \E c \in SendThreads :
        /\ Posts(c) = _MAX_RETRIES + 1
        /\ Resp(c, 1) = Http(400, <<>>, BodyEmpty)
        /\ Resp(c, 2) = Http(400, <<>>, JEmptyObj)
        /\ Resp(c, 3) = Http(400, <<>>, JEmptyList)
        /\ Resp(c, 4) = Http(400, <<>>, BodyEmpty)
        /\ pc[c] = "done"
        /\ RaisedExc(c, "IOError")

====
